---- MODULE Spec2Model ----
(***************************************************************************)
(* Model of package rgb75 (src/rgb75/rgb75.go): the HUB75 RGB LED matrix   *)
(* driver.  The state is the Device struct, the GPIO lines it drives, the  *)
(* panel's shift register and output latch, and the row-scan timer of      *)
(* package native (not part of the sources at hand; modelled from the      *)
(* interface description).                                                 *)
(*                                                                         *)
(* Timer periods: TLC integers are 32-bit signed, and the uint32 period    *)
(* d.pos.cyc reaches 2000*2^21 > 2^31.  Every period the driver computes   *)
(* is a multiple of 16 (bitPeriod = 2000 = 16*125, and doubling modulo     *)
(* 2^32 keeps multiples of 16), so periods and tick counts are held in     *)
(* units of 16 ticks: a uint32 x is held as x/16, modulo 2^32/16 = 2^28.   *)
(***************************************************************************)
EXTENDS Integers, Sequences, FiniteSets, TLC

VARIABLES
    hw,         \* wiring of the device, fixed by New: address lines, port alignment
    cfg,        \* d.cfg
    buf,        \* d.buf, rows of pixels; << >> is the nil slice
    pos,        \* d.pos
    val,        \* d.val
    pins,       \* levels of the GPIO lines
    timer,      \* the row-scan timer of native.Hub75
    shift,      \* column data clocked into the shift register by the last step
    shiftPos,   \* row-pair and bitplane that data was read at
    latched,    \* column data in the output latch
    latchedPos, \* row-pair and bitplane of the latched data
    sweep,      \* scan states (after each step) of the frame in progress
    doneSweep,  \* scan states of the last completed frame
    last,       \* how the most recent Configure call ended
    nconf,      \* number of Configure calls made
    panicked,   \* a Go runtime panic has stopped the program
    isr,        \* handleRow invocations in progress (entered, not yet returned)
    call,       \* the most recent call that allocates or writes the framebuffer
    run         \* where initialize and handleRow stand when run statement by statement

vars == <<hw, cfg, buf, pos, val, pins, timer, shift, shiftPos, latched,
          latchedPos, sweep, doneSweep, last, nconf, panicked, isr, call, run>>

----
\* Bounds of the model.
MaxAddrLines == 1       \* devices have 1..MaxAddrLines row-address lines
MaxWidth == 1           \* Config.Width is drawn from -1..MaxWidth
MaxColorDepth == 1      \* Config.ColorDepth is drawn from 0..MaxColorDepth
MaxFrame == 2           \* interrupts are served while d.pos.frame < MaxFrame
MaxConfigures == 2      \* Configure is called at most this many times
MaxLit == 1             \* SetPixel keeps at most this many non-black pixels
MaxDeepDepth == 23      \* ColorDepth range of the deep-colour specification
MaxNest == 2            \* interrupts are taken while fewer invocations are in progress

\* Constants of the program.
DefaultWidth == 64
DefaultHeight == 32
DefaultColorDepth == 4
bitPeriod == 2000

\* bitPeriod in units of 16 ticks, and the uint32 modulus in the same units.
bitPeriodUnits == bitPeriod \div 16
CycModulus == 2^28

----
\* Go arithmetic.

\* int division truncates toward zero (b > 0).
GoDiv(a, b) == IF a >= 0 THEN a \div b ELSE -((-a) \div b)

Min(a, b) == IF a <= b THEN a ELSE b
Max(a, b) == IF a >= b THEN a ELSE b

\* The widening with the low byte left clear.
RGBA16High(v) == v * 256

\* color.RGBA.RGBA(): each 8-bit channel v is widened to 16 bits, v | v<<8.
RGBA16(v) == v + v * 256

\* 0 != (c & (1 << n)) for a uint32 c < 2^16: no bit at or above 16 is set
\* (and 1 << n is 0 from n = 32 on).
MaskBit(c, n) == IF n >= 16 THEN FALSE ELSE (c \div (2^n)) % 2 = 1

Black == [R |-> 0, G |-> 0, B |-> 0, A |-> 0]

\* A framebuffer one row short of the height.
MakeBufShort(w, h) == [y \in 1..(h - 1) |-> [x \in 1..w |-> Black]]

\* make([][]color.RGBA, h) followed by make([]color.RGBA, w) for each row.
MakeBuf(w, h) == [y \in 1..h |-> [x \in 1..w |-> Black]]

----
\* The wiring handed to New, and what the port-alignment analyzer of package
\* native answers for it (a pure function of the wiring).

\* GetPinGroupAlignment(d.row...): all row-address lines on one port.
AddrPinsAligned(h) == h.addrSame

\* GetPinGroupAlignment(the six RGB pins): same port, and the group offset.
DataPinsAlignment(h) == [same |-> h.rgbSame, align |-> h.rgbAlign]

\* GetPinGroupAlignment(d.rgb.up.r, d.clk): clock on the port of the data lines.
ClkPinAligned(h) == h.clkSame

\* A single address line is trivially on one port.
Wirings ==
    {w \in [nrow : 1..MaxAddrLines, addrSame : BOOLEAN, rgbSame : BOOLEAN,
            rgbAlign : 0..1, clkSame : BOOLEAN] : w.nrow = 1 => w.addrSame}

\* The timer of native.Hub75: InitTimer registers the interrupt callback,
\* PauseTimer stops the count and returns it, ResumeTimer restarts the count at
\* `start` with the given period.
InitTimer(t) == [t EXCEPT !.cb = TRUE]

ResumeTimer(t, start, period) ==
    [t EXCEPT !.running = TRUE, !.ticks = start, !.period = period]

\* The counts PauseTimer can return: the count the timer was started at, or,
\* while it runs, the last count before the period elapses.
PauseTimerResults(t) ==
    IF t.running /\ t.period > 0 THEN {t.ticks, Max(t.ticks, t.period - 1)}
    ELSE {t.ticks}

PauseTimer(t, e) == [t EXCEPT !.running = FALSE, !.ticks = e]

----
\* New: the Device before Configure.

NewConfig(h) ==
    [Width |-> DefaultWidth, Height |-> DefaultHeight,
     ColorDepth |-> DefaultColorDepth, oneAddrPort |-> FALSE,
     clkDataPort |-> FALSE, numAddrRows |-> 0, maxHeight |-> 2^(h.nrow + 1)]

ZeroPos == [frame |-> 0, yPr |-> 0, yUp |-> 0, yLo |-> 0, bit |-> 0, cyc |-> 0]

LowData == <<FALSE, FALSE, FALSE, FALSE, FALSE, FALSE>>

\* No line is an output before Configure; levels are those of undriven lines.
NewPins ==
    [driven |-> FALSE, oen |-> 0, lat |-> 0, clk |-> 0, rgb |-> LowData, addr |-> 0]

NoPos == [yUp |-> -1, bit |-> -1]

\* Neither initialize nor handleRow is part-way through.
\* init and isr count the statements executed; trace lists those of the
\* handleRow invocation entered last since initialize was called, and wrote
\* tells whether its selectRow wrote the address lines.
Idle == [init |-> 0, isr |-> 0, trace |-> << >>, wrote |-> FALSE]

----
\* rgbBit: bit n of the widened R, G, B of pixel (x, y); unchecked indexing.
rgbBit(b, x, y, n) ==
    LET px == b[y + 1][x + 1]
    IN  <<MaskBit(RGBA16(px.R), n), MaskBit(RGBA16(px.G), n), MaskBit(RGBA16(px.B), n)>>

\* d.buf[y][x] does not panic.
InBounds(b, x, y) == y >= 0 /\ y < Len(b) /\ x >= 0 /\ x < Len(b[y + 1])

\* increment with the bitplane rollover tested by > instead of >=.
incrementBitLate(p, c) ==
    LET bit1 == p.bit + 1
        cyc1 == (p.cyc * 2) % CycModulus
    IN  IF bit1 > c.ColorDepth
        THEN IF p.yUp + 1 >= c.numAddrRows
             THEN [p EXCEPT !.bit = 0, !.cyc = bitPeriodUnits, !.yUp = 0,
                            !.yLo = c.numAddrRows, !.frame = p.frame + 1]
             ELSE [p EXCEPT !.bit = 0, !.cyc = bitPeriodUnits,
                            !.yUp = p.yUp + 1, !.yLo = p.yLo + 1]
        ELSE [p EXCEPT !.bit = bit1, !.cyc = cyc1]

\* increment with the row rollover tested by > instead of >=.
incrementLate(p, c) ==
    LET bit1 == p.bit + 1
        cyc1 == (p.cyc * 2) % CycModulus
    IN  IF bit1 >= c.ColorDepth
        THEN IF p.yUp + 1 > c.numAddrRows
             THEN [p EXCEPT !.bit = 0, !.cyc = bitPeriodUnits, !.yUp = 0,
                            !.yLo = c.numAddrRows, !.frame = p.frame + 1]
             ELSE [p EXCEPT !.bit = 0, !.cyc = bitPeriodUnits,
                            !.yUp = p.yUp + 1, !.yLo = p.yLo + 1]
        ELSE [p EXCEPT !.bit = bit1, !.cyc = cyc1]

\* increment: the next bitplane, or bitplane 0 of the next row-pair.
increment(p, c) ==
    LET bit1 == p.bit + 1
        cyc1 == (p.cyc * 2) % CycModulus
    IN  IF bit1 >= c.ColorDepth
        THEN IF p.yUp + 1 >= c.numAddrRows
             THEN [p EXCEPT !.bit = 0, !.cyc = bitPeriodUnits, !.yUp = 0,
                            !.yLo = c.numAddrRows, !.frame = p.frame + 1]
             ELSE [p EXCEPT !.bit = 0, !.cyc = bitPeriodUnits,
                            !.yUp = p.yUp + 1, !.yLo = p.yLo + 1]
        ELSE [p EXCEPT !.bit = bit1, !.cyc = cyc1]

\* selectRow with the unchanged-row test inverted.
selectRowInverted(row, p, c) ==
    IF row >= c.Height THEN [write |-> FALSE, row |-> p.yPr]
    ELSE LET r == IF row >= c.numAddrRows THEN row - c.numAddrRows ELSE row
         IN  IF r # p.yPr THEN [write |-> FALSE, row |-> p.yPr]
             ELSE [write |-> TRUE, row |-> r]

\* selectRow: the row-pair to address, or nothing to do (write = FALSE).
selectRow(row, p, c) ==
    IF row >= c.Height THEN [write |-> FALSE, row |-> p.yPr]
    ELSE LET r == IF row >= c.numAddrRows THEN row - c.numAddrRows ELSE row
         IN  IF r = p.yPr THEN [write |-> FALSE, row |-> p.yPr]
             ELSE [write |-> TRUE, row |-> r]

\* The level of the address lines after writing row r to n lines, line i
\* carrying bit i of r (SetRow, or one Set per line).
AddrLines(r, n) == r % (2^n)

\* SetRow(row): the address lines written as a group in one register write.
SetRow(r, n) == AddrLines(r, n)

\* The per-line fallback: line i is set high iff bit i of row is set.
RECURSIVE SetPins(_, _, _)
SetPins(r, i, n) ==
    IF i >= n THEN 0
    ELSE (IF (r \div (2^i)) % 2 = 1 THEN 2^i ELSE 0) + SetPins(r, i + 1, n)

\* selectRow's write of the address lines, by the path oneAddrPort selects.
AddrWrite(one, r, n) == IF one THEN SetRow(r, n) ELSE SetPins(r, 0, n)

\* The data and clock lines, with the data sampled at each rising clock edge.
\* ClkRgb: the six data lines set and the clock pulsed by one register write.
ClkRgb(l, d) == [rgb |-> d, clk |-> 0, edges |-> Append(l.edges, d)]

SetRgb(l, d) == [l EXCEPT !.rgb = d]

ClkHigh(l) ==
    [l EXCEPT !.clk = 1, !.edges = IF l.clk = 0 THEN Append(@, l.rgb) ELSE @]

ClkLow(l) == [l EXCEPT !.clk = 0]

SetRgbMask(l, m) == [l EXCEPT !.rgb = IF m = 0 THEN LowData ELSE @]

\* The column step with the data lines cleared before the clock pulse.
ColumnClearedEarly(l, d, fast) ==
    IF fast THEN ClkRgb(l, d)
    ELSE ClkLow(ClkHigh(SetRgbMask(SetRgb(l, d), 0)))

\* One column of handleRow's loop, by the path clkDataPort selects.
Column(l, d, fast) ==
    IF fast THEN ClkRgb(l, d)
    ELSE SetRgbMask(ClkLow(ClkHigh(SetRgb(l, d))), 0)

\* handleRow's column loop over columns lo..hi of data, in order, from line
\* levels l. The range is halved and each half is bound as a value, which
\* keeps the evaluation shallow; the columns are still taken left to right.
RECURSIVE ShiftColumns(_, _, _, _, _)
ShiftColumns(l, data, lo, hi, fast) ==
    IF lo > hi THEN l
    ELSE IF lo = hi THEN Column(l, data[lo], fast)
    ELSE LET mid == (lo + hi) \div 2
         IN  CHOOSE r \in {ShiftColumns(v, data, mid + 1, hi, fast) :
                              v \in {ShiftColumns(l, data, lo, mid, fast)}} : TRUE

----
\* Configure, stage by stage.

\* The width taken from the argument, without the default.
ConfigWidthRaw(c) == c.Width

\* The width taken from the argument.
ConfigWidth(c) == IF c.Width # 0 THEN c.Width ELSE DefaultWidth

\* The height check with >= for >.
HeightRejectedAtMax(c, cur) == c.Height # 0 /\ c.Height >= cur.maxHeight

\* The height check that returns ErrInvalidHeight.
HeightRejected(c, cur) == c.Height # 0 /\ c.Height > cur.maxHeight

ConfigHeight(c, cur) == IF c.Height # 0 THEN c.Height ELSE cur.maxHeight

\* The colour depth taken from the argument, without the default.
ConfigColorDepthRaw(c) == c.ColorDepth

ConfigColorDepth(c) == IF c.ColorDepth # 0 THEN c.ColorDepth ELSE DefaultColorDepth

\* The data-pin check that returns ErrInvalidDataPins.
DataPinsRejected(h) ==
    LET a == DataPinsAlignment(h) IN ~a.same \/ a.align = 0

\* make panics on a negative length: the row slice, then each row.
AllocPanics(c) == c.Height < 0 \/ (c.Height > 0 /\ c.Width < 0)

\* d.cfg when Configure(c) ends, however it ends.
ConfigureCfg(c, cur, h) ==
    LET c1 == [cur EXCEPT !.Width = ConfigWidth(c)]
        c2 == [c1 EXCEPT !.Height = ConfigHeight(c, cur),
                         !.numAddrRows = GoDiv(ConfigHeight(c, cur), 2),
                         !.ColorDepth = ConfigColorDepth(c),
                         !.oneAddrPort = AddrPinsAligned(h)]
        c3 == [c2 EXCEPT !.clkDataPort = ClkPinAligned(h)]
    IN  IF HeightRejected(c, cur) THEN c1
        ELSE IF DataPinsRejected(h) THEN c2
        ELSE c3

\* How Configure(c) ends: the error returned, nil, or a runtime panic.
ConfigureResult(c, cur, h) ==
    IF HeightRejected(c, cur) THEN "ErrInvalidHeight"
    ELSE IF DataPinsRejected(h) THEN "ErrInvalidDataPins"
    ELSE IF AllocPanics(ConfigureCfg(c, cur, h)) THEN "panic"
    ELSE "nil"

\* The seed with prevRow equal to the row-pair the first interrupt selects.
InitPosRowZero(c) ==
    [frame |-> 0, yPr |-> 0, yUp |-> c.numAddrRows, yLo |-> c.Height,
     bit |-> c.ColorDepth, cyc |-> bitPeriodUnits]

\* initialize: the scan state that rolls over on the first interrupt.
InitPos(c) ==
    [frame |-> 0, yPr |-> 1, yUp |-> c.numAddrRows, yLo |-> c.Height,
     bit |-> c.ColorDepth, cyc |-> bitPeriodUnits]

\* initialize: output disabled, every other line low.
InitPins ==
    [driven |-> TRUE, oen |-> 1, lat |-> 0, clk |-> 0, rgb |-> LowData, addr |-> 0]

\* initialize: Width zero columns clocked in and latched.
ZeroColumns(w) == [x \in 1..w |-> LowData]

\* A column loop that stops at once when both rows are black.
ShiftCountLit(b, p, w) ==
    IF w <= 0 THEN 0
    ELSE IF ~(InBounds(b, 0, p.yUp) /\ InBounds(b, 0, p.yLo)) THEN 0
    ELSE IF \A x \in 1..Len(b[p.yUp + 1]) : b[p.yUp + 1][x] = Black THEN 0
    ELSE Min(w, Min(Len(b[p.yUp + 1]), Len(b[p.yLo + 1])))

\* The columns handleRow shifts before it returns or an index panics.
ShiftCount(b, p, w) ==
    IF w <= 0 THEN 0
    ELSE IF ~(InBounds(b, 0, p.yUp) /\ InBounds(b, 0, p.yLo)) THEN 0
    ELSE Min(w, Min(Len(b[p.yUp + 1]), Len(b[p.yLo + 1])))

\* The data-line values with the lower row's bits ahead of the upper row's.
ColumnDataLowerFirst(b, x, p) ==
    rgbBit(b, x, p.yLo, p.bit) \o rgbBit(b, x, p.yUp, p.bit)

\* The six data-line values of column x: upper R, G, B then lower R, G, B.
ColumnData(b, x, p) == rgbBit(b, x, p.yUp, p.bit) \o rgbBit(b, x, p.yLo, p.bit)

\* Size: the configured dimensions converted to int16.
Int16(v) == ((v + 32768) % 65536) - 32768

Size(c) == <<Int16(c.Width), Int16(c.Height)>>

----
\* Inputs.
Widths == {-1} \cup 0..MaxWidth
Heights == {-1} \cup 0..(2^(MaxAddrLines + 1) + 2)
ColorDepths == 0..MaxColorDepth
Configs == [Width : Widths, Height : Heights, ColorDepth : ColorDepths]

Mixed == [R |-> 5, G |-> 128, B |-> 255, A |-> 7]
Colors == {Black, Mixed}

PixelXs == -1..MaxWidth
PixelYs == -1..(2^(MaxAddrLines + 1))

Lit(b) == {yx \in (1..Len(b)) \X (1..MaxWidth + 1) :
              yx[2] <= Len(b[yx[1]]) /\ b[yx[1]][yx[2]] # Black}

----
Init ==
    /\ hw \in Wirings
    /\ cfg = NewConfig(hw)
    /\ buf = << >>
    /\ pos = ZeroPos
    /\ val = 0
    /\ pins = NewPins
    /\ timer = [cb |-> FALSE, running |-> FALSE, ticks |-> 0, period |-> 0]
    /\ shift = << >>
    /\ shiftPos = NoPos
    /\ latched = << >>
    /\ latchedPos = NoPos
    /\ sweep = << >>
    /\ doneSweep = << >>
    /\ last = "none"
    /\ nconf = 0
    /\ panicked = FALSE
    /\ isr = 0
    /\ call = "none"
    /\ run = Idle

\* Configure(c), with initialize when every check passes.
ConfigureCall(c) ==
    LET res == ConfigureResult(c, cfg, hw)
        c1 == ConfigureCfg(c, cfg, hw)
    IN  /\ ~panicked
        /\ nconf < MaxConfigures
        /\ nconf' = nconf + 1
        /\ last' = res
        /\ cfg' = c1
        /\ IF res = "nil"
           THEN /\ pins' = InitPins
                /\ buf' = MakeBuf(c1.Width, c1.Height)
                /\ pos' = InitPos(c1)
                /\ timer' = InitTimer(timer)
                /\ shift' = ZeroColumns(c1.Width)
                /\ shiftPos' = NoPos
                /\ latched' = ZeroColumns(c1.Width)
                /\ latchedPos' = NoPos
                /\ sweep' = << >>
                /\ doneSweep' = << >>
                /\ UNCHANGED <<val, panicked>>
           ELSE IF res = "panic"
           THEN /\ pins' = [pins EXCEPT !.driven = TRUE]
                /\ buf' = IF c1.Height < 0 THEN buf
                          ELSE [y \in 1..c1.Height |-> << >>]
                /\ panicked' = TRUE
                /\ UNCHANGED <<pos, val, timer, shift, shiftPos, latched,
                               latchedPos, sweep, doneSweep>>
           ELSE UNCHANGED <<buf, pos, val, pins, timer, shift, shiftPos,
                            latched, latchedPos, sweep, doneSweep, panicked>>
        /\ call' = "Configure"
        /\ UNCHANGED <<hw, isr, run>>

Configure == \E c \in Configs : ConfigureCall(c)

\* The column loop of handleRow run on the lines: columns 1..Len(data) in
\* order, from the levels l0, by the path clkDataPort selects.
RowLines(l0, data, fast) ==
    ShiftColumns([rgb |-> l0.rgb, clk |-> 0, edges |-> << >>], data, 1, Len(data), fast)

\* handleRow from line 317 on, as a function of the scan state p, the
\* configuration c, the framebuffer b, the number n of address lines and
\* the levels l0 of the lines: the address written, the scan state advanced,
\* the columns shifted out and the levels the data lines are left at.
RowStep(p, c, b, n, l0) ==
    LET sel == selectRow(p.yUp, p, c)
        p1 == increment([p EXCEPT !.yPr = sel.row], c)
        k == ShiftCount(b, p1, c.Width)
        data == [x \in 1..k |-> ColumnData(b, x - 1, p1)]
    IN  CHOOSE st \in
            {[write |-> sel.write,
              addr |-> IF sel.write THEN AddrWrite(c.oneAddrPort, sel.row, n)
                       ELSE l0.addr,
              pos |-> p1, k |-> k, clk |-> l.clk, edges |-> l.edges, rgb |-> l.rgb] :
             l \in {RowLines(l0, data, c.clkDataPort)}} : TRUE

RowBody ==
    \E st \in {RowStep(pos, cfg, buf, hw.nrow, pins)} :
    LET p1 == st.pos
        entry == [yUp |-> p1.yUp, yLo |-> p1.yLo, bit |-> p1.bit, cyc |-> p1.cyc,
                  write |-> st.write]
    IN  /\ latched' = shift
        /\ latchedPos' = shiftPos
        /\ pos' = p1
        /\ pins' = [pins EXCEPT
               !.oen = 0, !.lat = 0, !.clk = st.clk,
               !.addr = st.addr, !.rgb = st.rgb]
        /\ shift' = st.edges
        /\ shiftPos' = [yUp |-> p1.yUp, bit |-> p1.bit]
        /\ panicked' = (st.k < cfg.Width)
        /\ sweep' = IF p1.frame # pos.frame THEN <<entry>> ELSE Append(sweep, entry)
        /\ doneSweep' = IF p1.frame # pos.frame THEN sweep ELSE doneSweep
        /\ UNCHANGED <<hw, cfg, buf, val, last, nconf, call, run>>

\* The timer interrupt: handleRow, run from entry to return.
HandleRow ==
    /\ ~panicked
    /\ timer.cb
    /\ timer.running
    /\ isr = 0
    /\ pos.frame < MaxFrame
    /\ timer' = ResumeTimer(PauseTimer(timer, timer.ticks), 0, pos.cyc)
    /\ RowBody
    /\ UNCHANGED isr

\* The timer interrupt taken: handleRow's lines 307-308, PauseTimer then
\* ResumeTimer(0, d.pos.cyc).
IsrEnter ==
    /\ ~panicked
    /\ timer.cb
    /\ timer.running
    /\ isr < MaxNest
    /\ pos.frame < MaxFrame
    /\ timer' = ResumeTimer(PauseTimer(timer, timer.ticks), 0, pos.cyc)
    /\ isr' = isr + 1
    /\ UNCHANGED <<hw, cfg, buf, pos, val, pins, shift, shiftPos, latched,
                   latchedPos, sweep, doneSweep, last, nconf, panicked, call, run>>

\* The rest of the invocation entered last, to its return.
IsrBody ==
    /\ ~panicked
    /\ isr > 0
    /\ RowBody
    /\ isr' = isr - 1
    /\ UNCHANGED timer

\* SetPixel with out-of-range coordinates clamped to the nearest pixel.
SetPixelClamped(b, x, y, c) ==
    IF Len(b) = 0 \/ Len(b[1]) = 0 THEN b
    ELSE [b EXCEPT ![Max(1, Min(y + 1, Len(b)))][Max(1, Min(x + 1, Len(b[1])))] = c]

\* ClearDisplay that leaves the first row as it is.
ClearBufBelow(b) ==
    [y \in 1..Len(b) |-> IF y = 1 THEN b[y] ELSE [x \in 1..Len(b[y]) |-> Black]]

\* d.buf after SetPixel(x, y, c): the bounds test of lines 214-215.
SetPixelBuf(b, x, y, c) ==
    IF InBounds(b, x, y) THEN [b EXCEPT ![y + 1][x + 1] = c] ELSE b

\* d.buf after ClearDisplay.
ClearBuf(b) == [y \in 1..Len(b) |-> [x \in 1..Len(b[y]) |-> Black]]

\* SetPixel(x, y, c).
SetPixelCall(x, y, c) ==
    /\ ~panicked
    /\ buf' = SetPixelBuf(buf, x, y, c)
    /\ Cardinality(Lit(buf')) <= MaxLit
    /\ call' = IF InBounds(buf, x, y) THEN "SetPixel" ELSE "SetPixelOutside"
    /\ UNCHANGED <<hw, cfg, pos, val, pins, timer, shift, shiftPos, latched,
                   latchedPos, sweep, doneSweep, last, nconf, panicked, isr, run>>

SetPixel == \E x \in PixelXs, y \in PixelYs, c \in Colors : SetPixelCall(x, y, c)

\* A ClearDisplay that also restarts the scan, as initialize does around it.
ClearDisplayRestart ==
    /\ ~panicked
    /\ buf' = ClearBuf(buf)
    /\ pos' = IF pos = NoPos THEN pos ELSE InitPos(cfg)
    /\ call' = "ClearDisplay"
    /\ UNCHANGED <<hw, cfg, val, pins, timer, shift, shiftPos, latched,
                   latchedPos, sweep, doneSweep, last, nconf, panicked, isr, run>>

ClearDisplay ==
    /\ ~panicked
    /\ buf' = ClearBuf(buf)
    /\ call' = "ClearDisplay"
    /\ UNCHANGED <<hw, cfg, pos, val, pins, timer, shift, shiftPos, latched,
                   latchedPos, sweep, doneSweep, last, nconf, panicked, isr, run>>

Resume ==
    /\ ~panicked
    /\ timer' = ResumeTimer(timer, val, pos.cyc)
    /\ UNCHANGED <<hw, cfg, buf, pos, val, pins, shift, shiftPos, latched,
                   latchedPos, sweep, doneSweep, last, nconf, panicked, isr, call, run>>

\* Display is Resume, and returns nil.
Display == Resume

Pause ==
    /\ ~panicked
    /\ \E e \in PauseTimerResults(timer) :
          /\ val' = e
          /\ timer' = PauseTimer(timer, e)
    /\ UNCHANGED <<hw, cfg, buf, pos, pins, shift, shiftPos, latched,
                   latchedPos, sweep, doneSweep, last, nconf, panicked, isr, call, run>>

----
\* initialize and handleRow statement by statement.

\* handleRow up to the column loop with the output enabled before the latch
\* is closed.
handleRowOpsOutputFirst ==
    <<"PauseTimer", "ResumeTimer", "oen.High", "lat.High", "selectRow",
      "increment", "oen.Low", "lat.Low">>

\* The statements of handleRow up to the column loop, lines 307-327.
handleRowOps ==
    <<"PauseTimer", "ResumeTimer", "oen.High", "lat.High", "selectRow",
      "increment", "lat.Low", "oen.Low">>

\* The slow path with the data lines cleared while the clock is high.
columnOpsClearedHigh(fast) ==
    IF fast THEN <<"ClkRgb">> ELSE <<"SetRgb", "clk.High", "SetRgbMask", "clk.Low">>

\* The statements of one pass of the column loop, lines 334-353.
columnOps(fast) ==
    IF fast THEN <<"ClkRgb">> ELSE <<"SetRgb", "clk.High", "clk.Low", "SetRgbMask">>

\* n copies of the statements ops, one after the other.
Repeat(ops, n) ==
    [i \in 1..(Max(n, 0) * Len(ops)) |-> ops[((i - 1) % Len(ops)) + 1]]

\* handleRow as the statements it executes for a width of w columns.
handleRowProgram(w, fast) == handleRowOps \o Repeat(columnOps(fast), w)

\* The column the k-th statement of handleRow belongs to.
ColumnOf(k, fast) == (k - Len(handleRowOps) - 1) \div Len(columnOps(fast))

\* initialize without the output disabled first.
initializeProgramLit(w) ==
    <<"lat.Low", "clk.Low", "rgb.Low", "row.Low">>
    \o Repeat(<<"clk.High", "clk.Low">>, w)
    \o <<"lat.High", "lat.Low", "seed">>

\* initialize as the statements it executes, lines 251-284: the lines set,
\* w clock pulses, the latch pulsed, then the scan state seeded, the
\* framebuffer cleared and the callback registered.
initializeProgram(w) ==
    <<"oen.High", "lat.Low", "clk.Low", "rgb.Low", "row.Low">>
    \o Repeat(<<"clk.High", "clk.Low">>, w)
    \o <<"lat.High", "lat.Low", "seed">>

\* The shift register keeps the last w values clocked in.
Register(e, w) ==
    IF Len(e) > Max(w, 0) THEN SubSeq(e, Len(e) - Max(w, 0) + 1, Len(e)) ELSE e

\* One statement: op, reading column x where it reads the framebuffer.
ExecOp(op, x) ==
    LET sel == selectRow(pos.yUp, pos, cfg)
        l == [rgb |-> pins.rgb, clk |-> pins.clk, edges |-> shift]
        ok == op \in {"ClkRgb", "SetRgb"} =>
                  (InBounds(buf, x, pos.yUp) /\ InBounds(buf, x, pos.yLo))
        l2 == CASE op = "ClkRgb" -> ClkRgb(l, ColumnData(buf, x, pos))
                [] op = "SetRgb" -> SetRgb(l, ColumnData(buf, x, pos))
                [] op = "clk.High" -> ClkHigh(l)
                [] op = "clk.Low" -> ClkLow(l)
                [] op \in {"SetRgbMask", "rgb.Low"} -> SetRgbMask(l, 0)
                [] OTHER -> l
        p1 == CASE op = "selectRow" -> [pos EXCEPT !.yPr = sel.row]
                [] op = "increment" -> increment(pos, cfg)
                [] op = "seed" -> InitPos(cfg)
                [] OTHER -> pos
        entry == [yUp |-> p1.yUp, yLo |-> p1.yLo, bit |-> p1.bit, cyc |-> p1.cyc,
                  write |-> run.wrote]
    IN  /\ panicked' = ~ok
        /\ IF ~ok
           THEN UNCHANGED <<pins, timer, pos, buf, shift, shiftPos, latched,
                            latchedPos, sweep, doneSweep>>
           ELSE /\ timer' = CASE op = "PauseTimer" -> PauseTimer(timer, timer.ticks)
                              [] op = "ResumeTimer" -> ResumeTimer(timer, 0, pos.cyc)
                              [] op = "seed" -> InitTimer(timer)
                              [] OTHER -> timer
                /\ pos' = p1
                /\ buf' = IF op = "seed" THEN ClearBuf(buf) ELSE buf
                /\ pins' = [pins EXCEPT
                       !.oen = CASE op = "oen.High" -> 1 [] op = "oen.Low" -> 0 [] OTHER -> @,
                       !.lat = CASE op = "lat.High" -> 1 [] op = "lat.Low" -> 0 [] OTHER -> @,
                       !.clk = l2.clk,
                       !.rgb = l2.rgb,
                       !.addr = CASE op = "selectRow" /\ sel.write ->
                                       AddrWrite(cfg.oneAddrPort, sel.row, hw.nrow)
                                  [] op = "row.Low" -> 0
                                  [] OTHER -> @]
                /\ shift' = Register(l2.edges, cfg.Width)
                /\ latched' = IF op = "lat.High" THEN shift ELSE latched
                /\ latchedPos' = CASE op = "lat.High" -> shiftPos
                                   [] op = "seed" -> NoPos
                                   [] OTHER -> latchedPos
                /\ shiftPos' = CASE op = "increment" -> [yUp |-> p1.yUp, bit |-> p1.bit]
                                 [] op = "seed" -> NoPos
                                 [] OTHER -> shiftPos
                /\ sweep' = CASE op = "increment" ->
                                  IF p1.frame # pos.frame THEN <<entry>>
                                  ELSE Append(sweep, entry)
                              [] op = "seed" -> << >>
                              [] OTHER -> sweep
                /\ doneSweep' = CASE op = "increment" ->
                                      IF p1.frame # pos.frame THEN sweep ELSE doneSweep
                                  [] op = "seed" -> << >>
                                  [] OTHER -> doneSweep

\* Configure(c) up to the call of initialize (lines 130-202): the settings
\* stored and checked, the lines made outputs, the framebuffer allocated.  A
\* call that returns an error or panics ends here.
ConfigureStart(c) ==
    /\ run.init = 0 /\ run.isr = 0
    /\ IF ConfigureResult(c, cfg, hw) # "nil"
       THEN ConfigureCall(c)
       ELSE /\ ~panicked
            /\ nconf < MaxConfigures
            /\ nconf' = nconf + 1
            /\ last' = "initialize"
            /\ cfg' = ConfigureCfg(c, cfg, hw)
            /\ pins' = [pins EXCEPT !.driven = TRUE]
            /\ buf' = MakeBuf(cfg'.Width, cfg'.Height)
            /\ call' = "Configure"
            /\ run' = [run EXCEPT !.init = 1, !.trace = << >>]
            /\ UNCHANGED <<hw, pos, val, timer, shift, shiftPos, latched,
                           latchedPos, sweep, doneSweep, panicked, isr>>

\* The next statement of initialize; the last one returns nil.
InitStep ==
    /\ ~panicked
    /\ run.init > 0 /\ run.isr = 0
    /\ \E prog \in {initializeProgram(cfg.Width)} :
          /\ ExecOp(prog[run.init], 0)
          /\ run' = [run EXCEPT !.init = IF run.init = Len(prog) THEN 0 ELSE @ + 1]
          /\ last' = IF run.init = Len(prog) THEN "nil" ELSE last
    /\ UNCHANGED <<hw, cfg, val, nconf, isr, call>>

\* The timer interrupt taken and the first statement of handleRow, or the
\* next statement of the invocation in progress; the last one returns.
IsrStep ==
    /\ ~panicked
    /\ run.isr > 0 \/ (timer.cb /\ timer.running /\ pos.frame < MaxFrame)
    /\ \E prog \in {handleRowProgram(cfg.Width, cfg.clkDataPort)} :
          LET k == run.isr + 1
          IN  /\ ExecOp(prog[k], ColumnOf(k, cfg.clkDataPort))
              /\ run' = [run EXCEPT
                     !.isr = IF panicked' \/ k < Len(prog) THEN k ELSE 0,
                     !.wrote = IF prog[k] = "selectRow"
                               THEN selectRow(pos.yUp, pos, cfg).write ELSE @,
                     !.trace = IF panicked' THEN @
                               ELSE IF k = 1 THEN <<prog[k]>> ELSE Append(@, prog[k])]
    /\ UNCHANGED <<hw, cfg, val, last, nconf, isr, call>>

\* The calls of the application, made between statements of the main
\* context and never inside the interrupt handler.
AtRest == run.init = 0 /\ run.isr = 0

ResumeAtRest == AtRest /\ Resume

PauseAtRest == AtRest /\ Pause

DrawAtRest ==
    /\ AtRest
    /\ pos.frame = 0
    /\ \E c \in Colors :
          \/ SetPixelCall(0, 0, c)
          \/ SetPixelCall(cfg.Width - 1, cfg.Height - 1, c)

----
\* The engine under every Configure argument, with the timer started, paused
\* and resumed at any point.
Next ==
    \/ Configure
    \/ HandleRow
    \/ Resume
    \/ Display
    \/ Pause

Spec == Init /\ [][Next]_vars

\* The engine under every colour depth up to MaxDeepDepth, on a panel one
\* column wide and of the maximum height.
DeepConfigs == [Width : {1}, Height : {0}, ColorDepth : 1..MaxDeepDepth]

ConfigureDeep == \E c \in DeepConfigs : ConfigureCall(c)

NextDeep ==
    \/ ConfigureDeep
    \/ HandleRow
    \/ Resume

SpecDeep == Init /\ [][NextDeep]_vars

\* The scan engine on panels MaxWidth columns wide, under every Height and
\* ColorDepth argument, with the timer started, paused and resumed at any
\* point.  handleRow's row and bitplane sequencing does not read the width.
ScanConfigs == {c \in Configs : c.Width = MaxWidth}

ConfigureScan == \E c \in ScanConfigs : ConfigureCall(c)

NextScan ==
    \/ ConfigureScan
    \/ HandleRow
    \/ Resume
    \/ Pause

SpecScan == Init /\ [][NextScan]_vars

\* Configure alone, called up to MaxConfigures times on every wiring with
\* every argument.
NextConfigure == Configure

SpecConfigure == Init /\ [][NextConfigure]_vars

\* The engine in use, on a device whose address, data and clock lines are
\* all port-aligned: configured once, then drawn on and cleared while the
\* timer is started, paused and resumed and interrupts are served.  SetPixel
\* writes the corner pixel.
InitAligned ==
    /\ Init
    /\ AddrPinsAligned(hw)
    /\ ~DataPinsRejected(hw)
    /\ ClkPinAligned(hw)

ConfigureOnce == nconf = 0 /\ Configure

SetPixelCorner == \E c \in Colors : SetPixelCall(0, 0, c)

NextRun ==
    \/ ConfigureOnce
    \/ HandleRow
    \/ SetPixelCorner
    \/ ClearDisplay
    \/ Pause
    \/ Resume
    \/ Display

SpecRun == InitAligned /\ [][NextRun]_vars

\* The scan engine with the interrupt handler in two steps, its entry (the
\* timer restarted) and the rest, so that the timer can expire in between.
NextIsr ==
    \/ ConfigureScan
    \/ IsrEnter
    \/ IsrBody
    \/ Resume

SpecIsr == Init /\ [][NextIsr]_vars

\* The framebuffer alone, on a port-aligned device: allocated by the first
\* Configure call that returns nil, under every Width and Height argument
\* (the colour depth does not reach the framebuffer), then written by
\* SetPixel at every coordinate and cleared.
FrameConfigs == {c \in Configs : c.ColorDepth = 0}

ConfigureFrame == last # "nil" /\ \E c \in FrameConfigs : ConfigureCall(c)

NextFrame ==
    \/ ConfigureFrame
    \/ SetPixel
    \/ ClearDisplay

SpecFrame == InitAligned /\ [][NextFrame]_vars

\* A picture drawn and then displayed: the default configuration on a panel
\* MaxWidth columns wide, pixels set before the first interrupt, then the
\* timer started and interrupts served.
BrightConfigs == {c \in Configs : c.Width = MaxWidth /\ c.Height = 0 /\ c.ColorDepth = 0}

ConfigureBright == \E c \in BrightConfigs : ConfigureCall(c)

Draw == pos.frame = 0 /\ SetPixel

NextBright ==
    \/ ConfigureBright
    \/ Draw
    \/ Resume
    \/ HandleRow

SpecBright == Init /\ [][NextBright]_vars

----
\* The engine at the default height and depth on every wiring, with the
\* first pixel of the upper half and the last pixel of the lower half drawn
\* before the scan starts.
DrawEnds ==
    /\ pos.frame = 0
    /\ \E c \in Colors :
          \/ SetPixelCall(0, 0, c)
          \/ SetPixelCall(cfg.Width - 1, cfg.Height - 1, c)

NextPaths == ConfigureBright \/ DrawEnds \/ Resume \/ HandleRow

SpecPaths == Init /\ [][NextPaths]_vars

\* The engine statement by statement on panels one and two columns wide,
\* the application keeping to the discipline of reconfiguring only while the
\* timer is stopped.
StepWidths == {1, 2}

StepConfigs == [Width : StepWidths, Height : Heights, ColorDepth : {1}]

ConfigureStopped == ~timer.running /\ \E c \in StepConfigs : ConfigureStart(c)

NextStep ==
    \/ ConfigureStopped
    \/ InitStep
    \/ IsrStep
    \/ ResumeAtRest
    \/ PauseAtRest
    \/ DrawAtRest

SpecStep == Init /\ [][NextStep]_vars

\* The same on panels one column wide with Configure called at any time, the
\* timer running or not, so that interrupts are served while initialize is
\* part-way through.
AnyTimeConfigs == {c \in StepConfigs : c.Width = 1}

ConfigureAnyTime == \E c \in AnyTimeConfigs : ConfigureStart(c)

NextStepAny ==
    \/ ConfigureAnyTime
    \/ InitStep
    \/ IsrStep
    \/ ResumeAtRest
    \/ PauseAtRest
    \/ DrawAtRest

SpecStepAny == Init /\ [][NextStepAny]_vars

\* The scan engine configured and reconfigured under every Height and
\* ColorDepth argument, with the corner pixel drawn before the first
\* interrupt that follows each initialisation.
DrawCorner == pos.frame = 0 /\ SetPixelCorner

NextRestart ==
    \/ ConfigureScan
    \/ DrawCorner
    \/ Resume
    \/ HandleRow

SpecRestart == Init /\ [][NextRestart]_vars

\* The required discipline: the engine is paused while it scans, Configure
\* is called only with the timer stopped, and Resume restarts the engine.
ConfigurePaused == ~timer.running /\ ConfigureScan

PauseScanning == timer.running /\ pos.frame >= 1 /\ Pause

NextDiscipline ==
    \/ ConfigurePaused
    \/ Resume
    \/ HandleRow
    \/ PauseScanning

SpecDiscipline == Init /\ [][NextDiscipline]_vars

\* Properties.

\* Row-pairs scanned per frame: numAddrRows, and one when the height is 1.
RowPairs(c) == Max(c.numAddrRows, 1)

\* basePeriod * 2^k, in units of 16 ticks.
IdealPeriod(k) == bitPeriodUnits * 2^k

RECURSIVE SumCyc(_, _, _)
SumCyc(s, i, j) == IF i > j THEN 0 ELSE s[i].cyc + SumCyc(s, i + 1, j)

\* C1: for every colour depth d, in a frame completed after the first
\* interrupt each row-pair is served by d consecutive steps whose periods are
\* basePeriod, 2*basePeriod, ..., 2^(d-1)*basePeriod in that order, which sum
\* to (2^d - 1)*basePeriod.
C1_BcmSchedule ==
    pos.frame >= 2 =>
        LET d == cfg.ColorDepth
            n == RowPairs(cfg)
        IN  /\ Len(doneSweep) = n * d
            /\ \A r \in 0..(n - 1) :
                  /\ \A k \in 0..(d - 1) :
                        LET e == doneSweep[r * d + k + 1]
                        IN  e.yUp = r /\ e.bit = k /\ e.cyc = IdealPeriod(k)
                  /\ SumCyc(doneSweep, r * d + 1, r * d + d) = (2^d - 1) * bitPeriodUnits

\* Bit n of an 8-bit channel value.
Bit8(v, n) == IF n >= 8 THEN FALSE ELSE (v \div (2^n)) % 2 = 1

ChannelBits(b, x, y, n) ==
    <<Bit8(b[y + 1][x + 1].R, n), Bit8(b[y + 1][x + 1].G, n), Bit8(b[y + 1][x + 1].B, n)>>

\* C2: every step produces one clock pulse per column 0..width-1, in order,
\* and the six data lines of column x carry bit `bitplane` of R, G, B of
\* pixel (x, upperRow) and of pixel (x, lowerRow), for the scan state after
\* the advance of that step.
C2_ShiftOut ==
    [][HandleRow =>
          /\ Len(shift') = Max(cfg.Width, 0)
          /\ \A x \in 1..Len(shift') :
                shift'[x] = ChannelBits(buf, x - 1, pos'.yUp, pos'.bit)
                            \o ChannelBits(buf, x - 1, pos'.yLo, pos'.bit)]_vars

\* C3: from the second step after initialisation on, whenever output is
\* enabled the output latch holds the data of row-pair r shifted in the
\* preceding step and the address lines select r.
C3_Pipeline ==
    (pins.oen = 0 /\ latchedPos # NoPos) =>
        /\ pins.addr = latchedPos.yUp
        /\ pos.yPr = latchedPos.yUp

C3_Witness == pins.oen = 0 /\ latchedPos # NoPos /\ latchedPos.yUp = 1 /\ pos.bit = 1

\* The rows of a frame: row-pair r on steps r*d+1 .. r*d+d, bitplane by bitplane.
OnSchedule(s, c) ==
    /\ Len(s) <= RowPairs(c) * c.ColorDepth
    /\ \A i \in 1..Len(s) :
          /\ s[i].yUp = (i - 1) \div c.ColorDepth
          /\ s[i].bit = (i - 1) % c.ColorDepth
          /\ s[i].yLo = s[i].yUp + c.numAddrRows

\* C4 as stated: numAddrRows = h/2, upperRow stays in 0..numAddrRows-1, and
\* frame is incremented exactly when upperRow wraps from numAddrRows-1 to 0.
C4_Original ==
    [][HandleRow =>
          /\ cfg.numAddrRows = GoDiv(cfg.Height, 2)
          /\ pos'.yUp \in 0..(cfg.numAddrRows - 1)
          /\ (pos'.frame # pos.frame) <=>
                (pos.yUp = cfg.numAddrRows - 1 /\ pos'.yUp = 0)]_vars

\* C4, amended: numAddrRows = h/2 (truncated); the first interrupt after
\* initialisation increments frame from 0 while moving upperRow from
\* numAddrRows to 0; after it, upperRow takes 0, 1, ..., max(numAddrRows,1)-1
\* in ascending order, each held for colorDepth consecutive steps, before
\* frame is incremented again.
C4_RowSweep ==
    (timer.cb /\ last # "panic") =>
        /\ cfg.numAddrRows = GoDiv(cfg.Height, 2)
        /\ pos.frame = 0 => (sweep = << >> /\ pos.yUp = cfg.numAddrRows)
        /\ pos.frame >= 1 => (Len(sweep) >= 1 /\ OnSchedule(sweep, cfg))
        /\ pos.frame >= 2 =>
              (OnSchedule(doneSweep, cfg)
               /\ Len(doneSweep) = RowPairs(cfg) * cfg.ColorDepth)

C4_Witness ==
    pos.frame >= 2 /\ cfg.numAddrRows >= 2 /\ cfg.ColorDepth >= 2 /\ ~panicked


\* The ceiling the row-address lines imply: 2^(N+1).
Ceiling(h) == 2^(h.nrow + 1)

\* C5: maxHeight = 2^(N+1), and Configure returns ErrInvalidHeight exactly
\* when the requested Height is non-zero and greater than maxHeight: in every
\* state Configure can be called from, for every argument.
C5_HeightValidation ==
    /\ cfg.maxHeight = Ceiling(hw)
    /\ \A c \in Configs :
          (ConfigureResult(c, cfg, hw) = "ErrInvalidHeight") <=>
              (c.Height # 0 /\ c.Height > Ceiling(hw))

C5_Witness == last = "ErrInvalidHeight" /\ cfg.maxHeight = Ceiling(hw)

\* C6: a Configure call with Height > maxHeight, made after an earlier call
\* set the engine up, returns ErrInvalidHeight and changes nothing.
C6_RejectedHeightUntouched ==
    [][\A c \in Configs :
          (ConfigureCall(c) /\ timer.cb /\ c.Height > cfg.maxHeight) =>
              /\ last' = "ErrInvalidHeight"
              /\ UNCHANGED <<cfg, buf, pos, val, pins, timer>>]_vars

\* C7: with a height that passes validation, Configure returns
\* ErrInvalidDataPins exactly when the six data lines are not on one port or
\* their offset is zero, and nil otherwise.
C7_DataPinValidation ==
    [][\A c \in Configs :
          (ConfigureCall(c) /\ ~(c.Height # 0 /\ c.Height > cfg.maxHeight)) =>
              /\ (last' = "ErrInvalidDataPins") <=> (~hw.rgbSame \/ hw.rgbAlign = 0)
              /\ last' # "ErrInvalidDataPins" => last' = "nil"]_vars

\* C8: a Configure call that returns ErrInvalidDataPins leaves the Device as
\* it was.
C8_NoPartialConfiguration ==
    [][\A c \in Configs :
          (ConfigureCall(c) /\ last' = "ErrInvalidDataPins") =>
              UNCHANGED <<cfg, buf, pos, val, pins, timer>>]_vars

\* C9: Configure ends by returning nil, ErrInvalidHeight or
\* ErrInvalidDataPins, never in a panic.
C9_NeverPanics == last \in {"none", "nil", "ErrInvalidHeight", "ErrInvalidDataPins"}

C11_ScanTotal ==
    [][(HandleRow /\ last = "nil") =>
          /\ ~panicked'
          /\ pos'.yUp >= 0 /\ pos'.yUp < cfg.Height
          /\ pos'.yLo >= 0 /\ pos'.yLo < cfg.Height
          /\ Len(shift') = cfg.Width
          /\ \A x \in 0..(cfg.Width - 1) :
                InBounds(buf, x, pos'.yUp) /\ InBounds(buf, x, pos'.yLo)]_vars

C11_Witness ==
    /\ last = "nil" /\ ~panicked /\ pos.frame >= 2
    /\ cfg.Height = 3 /\ call = "ClearDisplay" /\ ~timer.running /\ val > 0

\* C12: handleRow is never entered while an invocation is in progress, and
\* the timer is not running while an invocation is in progress.
C12_NoReentry ==
    /\ isr <= 1
    /\ isr >= 1 => ~timer.running

\* C13: a Resume that follows a Pause of the running timer, with no
\* Configure in between, restarts the timer at the elapsed count Pause saved
\* and with the period the timer was running with when it was paused.
C13_ExactContinuation ==
    [][(Resume /\ nconf = 1 /\ timer.cb /\ ~timer.running /\ timer.period > 0) =>
          /\ timer'.running
          /\ timer'.ticks = timer.ticks
          /\ timer'.period = timer.period]_vars

\* The framebuffer's dimensions: its rows, and the pixels of a row.
FrameHeight(b) == Len(b)
FrameWidth(b) == IF Len(b) = 0 THEN 0 ELSE Len(b[1])

Outside(b, x, y) == x < 0 \/ x >= FrameWidth(b) \/ y < 0 \/ y >= FrameHeight(b)

\* Colours handed to SetPixel: those the actions draw with, one that differs
\* from Mixed in alpha only, and one with every bit of a channel set or clear.
ProbeColors ==
    Colors \cup {[Mixed EXCEPT !.A = 255], [R |-> 255, G |-> 0, B |-> 170, A |-> 0]}

\* C14: SetPixel with x outside [0,width) or y outside [0,height) of the
\* framebuffer, negative coordinates and the nil framebuffer before Configure
\* included, changes no pixel; and such a call leaves the program running.
C14_SetPixelBoundary ==
    /\ \A x \in PixelXs, y \in PixelYs, c \in ProbeColors :
          Outside(buf, x, y) => SetPixelBuf(buf, x, y, c) = buf
    /\ call = "SetPixelOutside" => ~panicked

C14_Witness == call = "SetPixelOutside" /\ FrameHeight(buf) > 0 /\ Lit(buf) # {}

\* C15: after SetPixel(x, y, c) at an in-range (x, y), rgbBit(x, y, n)
\* returns bit n of c.R, c.G and c.B for every n in 0..7, whatever c.A is,
\* and every other pixel is as before.
C15_RoundTrip ==
    \A x \in PixelXs, y \in PixelYs, c \in ProbeColors :
        ~Outside(buf, x, y) =>
            LET b2 == SetPixelBuf(buf, x, y, c)
            IN  /\ \A n \in 0..7 :
                      rgbBit(b2, x, y, n) = <<Bit8(c.R, n), Bit8(c.G, n), Bit8(c.B, n)>>
                /\ [b2 EXCEPT ![y + 1][x + 1] = buf[y + 1][x + 1]] = buf

C15_Witness ==
    /\ call = "SetPixel"
    /\ \E x \in PixelXs, y \in PixelYs :
          ~Outside(buf, x, y) /\ buf[y + 1][x + 1] = Mixed /\ x > 0 /\ y > 0

\* C16: ClearDisplay leaves every pixel (0,0,0,0), every rgbBit read false,
\* and the framebuffer's dimensions as they were; clearing again changes
\* nothing.
C16_ClearIdempotent ==
    LET b2 == ClearBuf(buf)
    IN  /\ Len(b2) = Len(buf)
        /\ \A y \in 1..Len(b2) :
              /\ Len(b2[y]) = Len(buf[y])
              /\ \A x \in 1..Len(b2[y]) : b2[y][x] = Black
        /\ \A x \in PixelXs, y \in PixelYs :
              ~Outside(b2, x, y) =>
                  \A n \in 0..15 : rgbBit(b2, x, y, n) = <<FALSE, FALSE, FALSE>>
        /\ ClearBuf(b2) = b2
        /\ call = "ClearDisplay" => buf = b2

C16_Witness == call = "ClearDisplay" /\ FrameHeight(buf) >= 2 /\ FrameWidth(buf) >= 1

\* C17 as stated: in every state of a configured engine, the one initialize
\* leaves included, 0 <= upperRow < numAddrRows, lowerRow = upperRow +
\* numAddrRows and 0 <= bitplane < colorDepth.
C17_Original ==
    (timer.cb /\ last # "panic") =>
        /\ pos.yUp >= 0 /\ pos.yUp < cfg.numAddrRows
        /\ pos.yLo = pos.yUp + cfg.numAddrRows
        /\ pos.bit >= 0 /\ pos.bit < cfg.ColorDepth

\* C17, amended: before the first interrupt the scan state is the seed
\* upperRow = numAddrRows, lowerRow = height, bitplane = colorDepth; from the
\* first interrupt on, 0 <= upperRow < max(numAddrRows, 1), lowerRow =
\* upperRow + numAddrRows and 0 <= bitplane < colorDepth.
C17_ScanRange ==
    (timer.cb /\ last # "panic") =>
        IF pos.frame = 0
        THEN /\ pos.yUp = cfg.numAddrRows
             /\ pos.yLo = cfg.Height
             /\ pos.bit = cfg.ColorDepth
        ELSE /\ pos.yUp >= 0 /\ pos.yUp < RowPairs(cfg)
             /\ pos.yLo = pos.yUp + cfg.numAddrRows
             /\ pos.bit >= 0 /\ pos.bit < cfg.ColorDepth

C17_Witness ==
    /\ timer.cb /\ last = "nil" /\ pos.frame >= 1
    /\ cfg.numAddrRows >= 2 /\ cfg.ColorDepth >= 2
    /\ pos.yUp = cfg.numAddrRows - 1 /\ pos.bit = cfg.ColorDepth - 1

\* C18: from the first interrupt on the stored period is
\* basePeriod * 2^bitplane, for every colour depth Configure accepts; the
\* doubling never wraps modulo 2^32.
C18_PeriodExact ==
    (timer.cb /\ last = "nil" /\ pos.frame >= 1) => pos.cyc = IdealPeriod(pos.bit)

\* The on-time of channel ch of pixel (x, y) over the steps s of one frame:
\* the periods of the steps that shift a 1 for it.
RECURSIVE OnTime(_, _, _, _, _, _)
OnTime(s, i, b, x, y, ch) ==
    IF i > Len(s) THEN 0
    ELSE (IF (s[i].yUp = y \/ s[i].yLo = y) /\ rgbBit(b, x, y, s[i].bit)[ch]
          THEN s[i].cyc ELSE 0) + OnTime(s, i + 1, b, x, y, ch)

\* C19: over a completed frame, for every pixel and channel the periods of
\* the steps during which the channel's bit is 1 sum to the channel value
\* times basePeriod.
C19_Brightness ==
    (timer.cb /\ last = "nil" /\ pos.frame >= 2) =>
        \A y \in 0..(FrameHeight(buf) - 1), x \in 0..(Min(FrameWidth(buf), MaxWidth) - 1) :
            LET px == buf[y + 1][x + 1]
            IN  /\ OnTime(doneSweep, 1, buf, x, y, 1) = px.R * bitPeriodUnits
                /\ OnTime(doneSweep, 1, buf, x, y, 2) = px.G * bitPeriodUnits
                /\ OnTime(doneSweep, 1, buf, x, y, 3) = px.B * bitPeriodUnits

\* What a step lets the panel and the timer see when the address is written
\* by the path `one` selects and the columns are clocked by the path
\* `clkData` selects: whether and what address is written, the data at each
\* rising clock edge, the number of clock pulses, the scan state after the
\* step and the period the timer is restarted with.
StepSeen(one, clkData) ==
    LET st == RowStep(pos, [cfg EXCEPT !.oneAddrPort = one, !.clkDataPort = clkData],
                      buf, hw.nrow, pins)
    IN  [write |-> st.write, addr |-> st.addr, edges |-> st.edges,
         pulses |-> Len(st.edges), clk |-> st.clk,
         pos |-> st.pos, period |-> pos.cyc]

\* C20: from every state of a configured engine, the step of an engine with
\* the alignment flags true and the step of one with the flags false write
\* the same row address, present the same six data-line values at every
\* rising clock edge, pulse the clock once per column, and leave the same
\* scan state and timer period.
C20_FlagsEquivalent ==
    (timer.cb /\ ~panicked) =>
        \E fast \in {StepSeen(TRUE, TRUE)}, slow \in {StepSeen(FALSE, FALSE)} :
            /\ fast = slow
            /\ fast.pulses = Max(cfg.Width, 0)
            /\ fast.addr = AddrLines(fast.addr, hw.nrow)

C20_Witness ==
    /\ timer.cb /\ ~panicked /\ ~cfg.clkDataPort /\ pos.frame >= 1
    /\ pins.addr = 1
    /\ \E x \in 1..Len(shift) : shift[x] # LowData

\* The bits of colour c that bitplane n carries, read as rgbBit reads them.
ColourBits(c, n) ==
    <<MaskBit(RGBA16(c.R), n), MaskBit(RGBA16(c.G), n), MaskBit(RGBA16(c.B), n)>>

\* C21: every step of a configured engine shifts out, for each pixel of the
\* two rows it serves, the bits of the colour the framebuffer holds for that
\* pixel when the step runs, which is the colour of the last SetPixel on it:
\* a write made between two interrupts is shifted out by every later step
\* that serves its row, so from the next full frame on at the latest.
C21_WriteVisible ==
    [][(HandleRow /\ last = "nil") =>
          \A x \in 0..(cfg.Width - 1) :
              /\ SubSeq(shift'[x + 1], 1, 3) = ColourBits(buf[pos'.yUp + 1][x + 1], pos'.bit)
              /\ SubSeq(shift'[x + 1], 4, 6) = ColourBits(buf[pos'.yLo + 1][x + 1], pos'.bit)]_vars

\* A pixel rewritten between two interrupts of a running engine: the step
\* before the write shifted the old colour (now latched), the step after it
\* shifted the new one.
C21_Witness ==
    /\ last = "nil" /\ ~panicked /\ timer.running /\ call = "SetPixel"
    /\ pos.frame >= 2 /\ pos.yUp = 0 /\ latchedPos.yUp = 0
    /\ buf[1][1] = Black
    /\ latched[1] # LowData
    /\ shift[1] = LowData

\* The first n statements of a trace, and one sequence beginning another.
First(t, n) == SubSeq(t, 1, Min(n, Len(t)))

Prefix(a, b) == Len(a) <= Len(b) /\ \A i \in 1..Len(a) : a[i] = b[i]

\* The statements that pulse the clock.
Pulses(t) == Cardinality({i \in 1..Len(t) : t[i] \in {"ClkRgb", "clk.High"}})

\* The order the step is stated to have: output re-enabled, then latch closed.
StatedOrder ==
    <<"PauseTimer", "ResumeTimer", "oen.High", "lat.High", "selectRow",
      "increment", "oen.Low", "lat.Low">>

\* The order with the latch closed before the output is re-enabled.
LatchFirstOrder ==
    <<"PauseTimer", "ResumeTimer", "oen.High", "lat.High", "selectRow",
      "increment", "lat.Low", "oen.Low">>

\* C22 as stated: every invocation performs timer pause, timer resume,
\* output disabled, latch high, row-address update, scan-state advance,
\* output re-enabled, latch closed, in that order, before the columns.
C22_Original == Prefix(First(run.trace, 8), StatedOrder)

\* C22, amended: every invocation performs timer pause; timer resume from
\* elapsed 0 with the current period; output disabled; latch high;
\* row-address update; scan-state advance; latch closed while the output is
\* still disabled; output re-enabled; then the column shift-outs, one clock
\* pulse for each of the columns 0..width-1.
C22_StepOrder ==
    LET t == run.trace
        n == Len(t)
    IN  /\ Prefix(First(t, 8), LatchFirstOrder)
        /\ \A i \in 9..n : t[i] \in {"ClkRgb", "SetRgb", "clk.High", "clk.Low", "SetRgbMask"}
        /\ (run.isr > 0 /\ n = 1) => ~timer.running
        /\ (run.isr > 0 /\ n = 2) =>
              (timer.running /\ timer.ticks = 0 /\ timer.period = pos.cyc)
        /\ (run.isr > 0 /\ n \in 3..6) => pins.oen = 1
        /\ (run.isr > 0 /\ n \in 4..6) => pins.lat = 1
        /\ (run.isr > 0 /\ n = 7) => (pins.lat = 0 /\ pins.oen = 1)
        /\ (run.isr > 0 /\ n >= 8) => (pins.lat = 0 /\ pins.oen = 0)
        /\ (run.isr = 0 /\ n > 0 /\ last = "nil" /\ ~panicked) =>
              (n >= 8 /\ Pulses(t) = Max(cfg.Width, 0))

C22_Witness ==
    /\ run.isr = 0 /\ last = "nil" /\ ~panicked /\ pos.frame >= 2
    /\ ~cfg.clkDataPort /\ Len(run.trace) = 8 + 4 * cfg.Width
    /\ pins.addr = 1

\* C23: at every step but the first after initialisation, the period the
\* timer is restarted with at the top of the step (d.pos.cyc as the step
\* finds it) is basePeriod * 2^k for the bitplane k of the data the step
\* latches, for every colour depth Configure accepts.
C23_PeriodOfLatched ==
    [][(HandleRow /\ last = "nil" /\ latchedPos' # NoPos) =>
          pos.cyc = IdealPeriod(latchedPos'.bit)]_vars

\* Number of steps of a sweep whose selectRow wrote the address lines.
Writes(s) == Cardinality({i \in 1..Len(s) : s[i].write})

\* The row-pair a step selects: selectRow folds d.pos.yUp into 0..numAddrRows-1.
RowToSelect == IF pos.yUp >= cfg.numAddrRows THEN pos.yUp - cfg.numAddrRows ELSE pos.yUp

Control(l) == [oen |-> l.oen, lat |-> l.lat, clk |-> l.clk, addr |-> l.addr]

\* A framebuffer of the same dimensions with every pixel of colour c.
Painted(b, c) == [y \in 1..Len(b) |-> [x \in 1..Len(b[y]) |-> c]]

\* C26: the scan state, timer period, address write, control lines and number
\* of clock pulses a step produces are those it produces on any framebuffer of
\* the same dimensions, and a call that changes the framebuffer content
\* changes none of the scan state, the timer and the control lines.
C26_ContentBlind ==
    [][/\ (HandleRow /\ ~panicked') =>
             \A c \in Colors :
                 \E st \in {RowStep(pos, cfg, Painted(buf, c), hw.nrow, pins)} :
                     /\ pos' = st.pos
                     /\ Control(pins') = [oen |-> 0, lat |-> 0, clk |-> st.clk,
                                          addr |-> st.addr]
                     /\ sweep'[Len(sweep')].write = st.write
                     /\ Len(st.edges) = Max(cfg.Width, 0)
                     /\ Len(shift') = Len(st.edges)
                     /\ timer'.running /\ timer'.ticks = 0 /\ timer'.period = pos.cyc
       /\ (buf' # buf /\ nconf' = nconf) =>
             /\ UNCHANGED <<pos, timer, val, sweep>>
             /\ Control(pins') = Control(pins)]_vars

C26_Witness ==
    /\ ~panicked /\ timer.running /\ pos.frame >= 1
    /\ call = "ClearDisplay" /\ buf = Painted(buf, Black)
    /\ shift[1] # LowData /\ pins.rgb # LowData

\* C27: SetPixel, ClearDisplay, Pause, Resume and Display leave d.pos
\* unchanged (Size is the operator Size(cfg), which has no effect at all);
\* d.pos changes only in handleRow, to the state increment computes, and in a
\* Configure call that returns nil, to the seed of initialize.
C27_ScanStateOwned ==
    [][/\ (SetPixelCorner \/ ClearDisplay \/ Pause \/ Resume \/ Display) => pos' = pos
       /\ (pos' # pos) =>
             \/ /\ nconf' = nconf + 1 /\ last' = "nil"
                /\ pos' = InitPos(cfg')
             \/ /\ nconf' = nconf /\ timer.cb /\ timer.running
                /\ pos' = increment([pos EXCEPT !.yPr = selectRow(pos.yUp, pos, cfg).row],
                                    cfg)
                /\ Len(sweep') = IF pos'.frame = pos.frame THEN Len(sweep) + 1 ELSE 1]_vars

C27_Witness ==
    /\ ~panicked /\ ~timer.running /\ val > 0
    /\ call = "ClearDisplay"
    /\ pos.frame = 1 /\ pos.yUp = 1 /\ pos.bit = 0 /\ pos.yPr = 0

\* C28: on the slow path (clock and data lines on different ports) the data
\* lines hold the column's six bits, written while the clock is low, at
\* SetRgb, across the rising edge (which samples them) and across the falling
\* edge; SetRgbMask(0) then clears them.  They are low when the column loop
\* is entered and when handleRow returns.
C28_SlowColumn ==
    (~panicked /\ last = "nil" /\ ~cfg.clkDataPort /\ Len(run.trace) >= Len(handleRowOps)) =>
        LET n == Len(run.trace)
            op == run.trace[n]
            data == ColumnData(buf, ColumnOf(n, FALSE), pos)
        IN  /\ op = "oen.Low" => (pins.rgb = LowData /\ pins.clk = 0)
            /\ op = "SetRgb" => (pins.rgb = data /\ pins.clk = 0)
            /\ op = "clk.High" =>
                  (pins.rgb = data /\ pins.clk = 1 /\ shift[Len(shift)] = data)
            /\ op = "clk.Low" => (pins.rgb = data /\ pins.clk = 0)
            /\ op = "SetRgbMask" => (pins.rgb = LowData /\ pins.clk = 0)
            /\ run.isr = 0 => (op = "SetRgbMask" /\ pins.rgb = LowData
                               /\ n = Len(handleRowOps) + 4 * cfg.Width)

C28_Witness ==
    /\ ~panicked /\ last = "nil" /\ ~cfg.clkDataPort /\ cfg.Width = 2
    /\ run.isr > 0 /\ Len(run.trace) = Len(handleRowOps) + 7
    /\ run.trace[Len(run.trace)] = "clk.Low"
    /\ pins.rgb # LowData /\ pins.clk = 0
    /\ shift[1] = LowData /\ shift[2] # LowData

\* initialize is part-way through while the timer runs or an interrupt is
\* being served: Configure was called without the timer paused first.
InitWhileRunning == run.init > 0 /\ (timer.running \/ run.isr > 0)

\* The latch is high only while the output is disabled, and a step that
\* changes the row address starts and ends with the output disabled.
Blanked ==
    /\ pins'.lat = 1 => pins'.oen = 1
    /\ pins'.addr # pins.addr => (pins.oen = 1 /\ pins'.oen = 1)

C30_ResumeHarmless ==
    [][((Resume \/ Display) /\ timer.running /\ timer.cb /\ pos.frame >= 1)
          => timer' = timer]_vars

\* C31 (violated): under the discipline, a Resume that follows a Configure
\* call which returned nil restarts the timer at count 0 with the base
\* period, the count below the period.
C31_CleanRestart ==
    [][(Resume /\ ~timer.running /\ timer.cb /\ last = "nil" /\ pos.frame = 0)
          => /\ timer'.running
             /\ timer'.ticks = 0
             /\ timer'.period = bitPeriodUnits
             /\ timer'.ticks < timer'.period]_vars

\* C32 (violated): once a Configure call has returned nil, the framebuffer
\* has cfg.Height rows of cfg.Width pixels, the values Size returns, and
\* numAddrRows is Height/2, whatever Configure calls followed.
C32_ConfigMatchesBuffer ==
    (timer.cb /\ ~panicked /\ last \in {"nil", "ErrInvalidHeight", "ErrInvalidDataPins"}) =>
        /\ Len(buf) = cfg.Height
        /\ \A y \in 1..Len(buf) : Len(buf[y]) = cfg.Width
        /\ Size(cfg) = <<cfg.Width, cfg.Height>>
        /\ cfg.numAddrRows = GoDiv(cfg.Height, 2)

====
